---- MODULE Spec2Model ----
(***************************************************************************)
(* Model of merge-aotcache.py: merging two AOT cache (CDS archive) files   *)
(* into one file with a single header and merged RW and RO regions.        *)
(*                                                                         *)
(* Files and blobs are sequences of bytes; the byte at Python offset `off` *)
(* is element off + 1.  All header offsets are the source's.  A byte takes *)
(* Radix values (256 in the source): TLC's integers are 32 bits wide, so   *)
(* the modulus of a u64, Radix^8, has to stay below 2^30.  Every width is  *)
(* expressed through Radix, so with Radix = 256 the definitions are the    *)
(* source's own arithmetic.                                                *)
(***************************************************************************)
EXTENDS Integers, Sequences, FiniteSets, TLC

\* Number of values a byte can take in the model.
Radix == 12

\* ------------------------------------------------------------------------
\* CDS layout constants (source lines 21-36)
NUM_REGIONS == 5
GENERIC_HEADER_SIZE == 24
REGION_SIZE == 96
REGIONS_START == 24
REGION_FILE_OFFSET_OFF == 24
REGION_MAPPING_OFFSET_OFF == 32
REGION_USED_OFF == 40
CORE_ALIGNMENT_OFF == 504
REQUESTED_BASE_OFF == 864

\* 0x0000_0008_0000_0000: byte 4 of the little-endian u64 is 8.
DEFAULT_SHARED_BASE == 8 * Radix^4

\* 0xFFFFFFFF_FFFFFFFF + 1: the modulus of struct's "<Q" (8 bytes).
U64 == Radix^8

\* ------------------------------------------------------------------------
\* Pure helpers

\* A faulty align_up: rounds down instead of up.
align_down(value, alignment) ==
    IF alignment <= 0 THEN value ELSE (value \div alignment) * alignment

align_up(value, alignment) ==
    IF alignment <= 0 THEN value
    ELSE ((value + alignment - 1) \div alignment) * alignment

\* struct.unpack_from("<I", buf, off)[0]
read_u32(buf, off) ==
    buf[off + 1] + buf[off + 2] * Radix + buf[off + 3] * Radix^2
        + buf[off + 4] * Radix^3

\* struct.unpack_from("<Q", buf, off)[0]
read_u64(buf, off) ==
    buf[off + 1] + buf[off + 2] * Radix + buf[off + 3] * Radix^2
        + buf[off + 4] * Radix^3 + buf[off + 5] * Radix^4
        + buf[off + 6] * Radix^5 + buf[off + 7] * Radix^6
        + buf[off + 8] * Radix^7

\* The little-endian bytes of an unsigned value of `width` bytes.
le_bytes(value, width) ==
    [j \in 1..width |-> (value \div Radix^(j - 1)) % Radix]

\* buf[lo:lo+len(data)] = data, for a range inside buf.
store(buf, lo, data) ==
    SubSeq(buf, 1, lo) \o data \o SubSeq(buf, lo + Len(data) + 1, Len(buf))

\* struct.pack_into("<Q", buf, off, value & 0xFFFFFFFF_FFFFFFFF)
write_u64(buf, off, value) ==
    store(buf, off, le_bytes(value % U64, 8))

\* struct.pack_into("<I", buf, off, 0) and struct.pack_into("<i", buf, off, 0)
zero_u32(buf, off) ==
    store(buf, off, le_bytes(0, 4))

\* Python's buf[lo:hi] (indices clamped to the buffer), and f.seek(lo);
\* f.read(hi - lo).
slice(buf, lo, hi) ==
    IF lo >= Len(buf) \/ hi <= lo THEN << >>
    ELSE SubSeq(buf, lo + 1, IF hi < Len(buf) THEN hi ELSE Len(buf))

\* f.seek(off); f.read(n) that forgets the seek.
file_read_noseek(file, off, n) ==
    slice(file, 0, n)

\* f.seek(off); f.read(n)
file_read(file, off, n) ==
    slice(file, off, off + n)

\* ------------------------------------------------------------------------
\* Header Reader (parse_header)

\* A faulty size check: never rejects.
header_too_large_never(data) ==
    FALSE

\* header_size > len(data)
header_too_large(data) ==
    read_u32(data, 12) > Len(data)

region(data, i) ==
    LET base == REGIONS_START + i * REGION_SIZE
    IN  [file_offset    |-> read_u64(data, base + REGION_FILE_OFFSET_OFF),
         mapping_offset |-> read_u64(data, base + REGION_MAPPING_OFFSET_OFF),
         used           |-> read_u64(data, base + REGION_USED_OFF)]

parse_header(data) ==
    [header_size    |-> read_u32(data, 12),
     alignment      |-> read_u64(data, CORE_ALIGNMENT_OFF),
     requested_base |-> read_u64(data, REQUESTED_BASE_OFF),
     rw             |-> region(data, 0),
     ro             |-> region(data, 1),
     bm             |-> region(data, 2)]

NoHeader ==
    [header_size |-> 0, alignment |-> 0, requested_base |-> 0,
     rw |-> [file_offset |-> 0, mapping_offset |-> 0, used |-> 0],
     ro |-> [file_offset |-> 0, mapping_offset |-> 0, used |-> 0],
     bm |-> [file_offset |-> 0, mapping_offset |-> 0, used |-> 0]]

\* ------------------------------------------------------------------------
\* Pointer Relocator (shift_pointers)

\* The range test of a rule with the upper end included.
in_range_closed(val, base, size) ==
    base <= val /\ val <= base + size

\* base <= val < base + size
in_range(val, base, size) ==
    base <= val /\ val < base + size

\* One iteration of the loop of shift_pointers, at word i.
shift_word(blob, i, base_old, size_old, delta, also_ro_base, also_ro_size, delta_ro) ==
    LET off == i * 8
        val == read_u64(blob, off)
    IN  IF in_range(val, base_old, size_old)
            THEN write_u64(blob, off, val + delta)
        ELSE IF in_range(val, also_ro_base, also_ro_size)
            THEN write_u64(blob, off, val + delta_ro)
        ELSE blob

RECURSIVE shift_from(_, _, _, _, _, _, _, _)
shift_from(blob, i, base_old, size_old, delta, also_ro_base, also_ro_size, delta_ro) ==
    IF i >= Len(blob) \div 8 THEN blob
    ELSE shift_from(shift_word(blob, i, base_old, size_old, delta,
                               also_ro_base, also_ro_size, delta_ro),
                    i + 1, base_old, size_old, delta, also_ro_base,
                    also_ro_size, delta_ro)

shift_pointers(blob, base_old, size_old, delta, also_ro_base, also_ro_size, delta_ro) ==
    shift_from(blob, 0, base_old, size_old, delta, also_ro_base,
               also_ro_size, delta_ro)

\* ------------------------------------------------------------------------
\* Layout Planner (merge, lines 121-171)

\* The effective base of a header that takes the declared value as it is.
effective_base_nodefault(h) ==
    h.requested_base

\* h["requested_base"] or DEFAULT_SHARED_BASE
effective_base(h) ==
    IF h.requested_base # 0 THEN h.requested_base ELSE DEFAULT_SHARED_BASE

\* (h1["requested_base"] or h2["requested_base"]) == 0
base_warning(h1, h2) ==
    (IF h1.requested_base # 0 THEN h1.requested_base
     ELSE h2.requested_base) = 0

\* merged_rw_used = rw1_used + rw2_used; merged_ro_used = ro1_used + ro2_used
merged_used(used1, used2) ==
    used1 + used2

\* total_size without the padding of the bitmap region.
total_size_unpadded(out_bm_file_off, bm1_used, alignment) ==
    out_bm_file_off + bm1_used

\* bm1_aligned = align_up(bm1_used, alignment);
\* total_size = out_bm_file_off + bm1_aligned
total_size_of(out_bm_file_off, bm1_used, alignment) ==
    out_bm_file_off + align_up(bm1_used, alignment)

\* A delta measured from cache2's file offset instead of its address.
delta_no_base2(requested_base1, out_file_off, used1, requested_base2, file_offset2) ==
    (requested_base1 + (out_file_off + used1)) - file_offset2

\* A delta that leaves out cache1's payload preceding cache2's.
delta_no_used1(requested_base1, out_file_off, used1, requested_base2, file_offset2) ==
    (requested_base1 + out_file_off) - (requested_base2 + file_offset2)

\* new_start = requested_base1 + (out_file_off + used1);
\* old_start = requested_base2 + file_offset2; delta = new_start - old_start
delta_of(requested_base1, out_file_off, used1, requested_base2, file_offset2) ==
    (requested_base1 + (out_file_off + used1))
        - (requested_base2 + file_offset2)

\* Everything merge computes between parsing and opening the output.
merge_plan(h1, h2) ==
    LET alignment       == h1.alignment
        requested_base1 == effective_base(h1)
        requested_base2 == effective_base(h2)
        merged_rw_used  == merged_used(h1.rw.used, h2.rw.used)
        merged_ro_used  == merged_used(h1.ro.used, h2.ro.used)
        out_rw_file_off == align_up(h1.header_size, alignment)
        rw_end          == out_rw_file_off + merged_rw_used
        out_ro_file_off == align_up(rw_end, alignment)
        ro_end          == out_ro_file_off + merged_ro_used
        out_bm_file_off == align_up(ro_end, alignment)
    IN  [alignment       |-> alignment,
         requested_base1 |-> requested_base1,
         requested_base2 |-> requested_base2,
         warned          |-> base_warning(h1, h2),
         merged_rw_used  |-> merged_rw_used,
         merged_ro_used  |-> merged_ro_used,
         out_rw_file_off |-> out_rw_file_off,
         out_ro_file_off |-> out_ro_file_off,
         out_bm_file_off |-> out_bm_file_off,
         bm1_aligned     |-> align_up(h1.bm.used, alignment),
         total_size      |-> total_size_of(out_bm_file_off, h1.bm.used,
                                           alignment),
         old_rw2_start   |-> requested_base2 + h2.rw.file_offset,
         old_ro2_start   |-> requested_base2 + h2.ro.file_offset,
         delta_rw        |-> delta_of(requested_base1, out_rw_file_off,
                                      h1.rw.used, requested_base2,
                                      h2.rw.file_offset),
         delta_ro        |-> delta_of(requested_base1, out_ro_file_off,
                                      h1.ro.used, requested_base2,
                                      h2.ro.file_offset)]

NoPlan ==
    [alignment |-> 0, requested_base1 |-> 0, requested_base2 |-> 0,
     warned |-> FALSE, merged_rw_used |-> 0, merged_ro_used |-> 0,
     out_rw_file_off |-> 0, out_ro_file_off |-> 0, out_bm_file_off |-> 0,
     bm1_aligned |-> 0, total_size |-> 0, old_rw2_start |-> 0,
     old_ro2_start |-> 0, delta_rw |-> 0, delta_ro |-> 0]

\* ------------------------------------------------------------------------
\* Input archives.  An archive file holds the fixed-layout header (every
\* field parse_header reads, up to requested_base_address), then its rw, ro
\* and bitmap payloads, each starting at a multiple of the alignment.  The
\* regions of one archive do not overlap, their used bytes are in the file
\* and the alignment is a positive power of two; header_size and
\* requested_base_address are whatever the file declares, merge checking
\* header_size against the file length only.

\* Length of the fixed-layout header: the end of requested_base_address.
FixedHeaderLen == REQUESTED_BASE_OFF + 8

\* A declared base other than zero, and one close to the top of the u64 range.
BaseB == 3 * Radix^5
BaseHigh == U64 - 16

\* header_size of the spec's scenario, of a full header, and one beyond any file.
HeaderSizes1 == {64, FixedHeaderLen, 4000}
HeaderSizes2 == {FixedHeaderLen, 4000}
Alignments == {8, 16}
Bases1 == {0, BaseB, BaseHigh}
Bases2 == {0, BaseB}
\* <<rw used, ro used>>
Sizes1 == {<<100, 200>>, <<24, 8>>}
Sizes2 == {<<50, 30>>, <<0, 0>>, <<16, 24>>}
BitmapSizes1 == {0, 16, 20}

Archive1Inputs ==
    [hs : HeaderSizes1, al : Alignments, base : Bases1, sz : Sizes1, bmu : BitmapSizes1]

Archive2Inputs ==
    [hs : HeaderSizes2, al : {16}, base : Bases2, sz : Sizes2, bmu : {8}]

\* Opaque header and payload bytes: never zero, so a stale field shows.
filler(i) ==
    1 + (i % (Radix - 1))

\* Stores the little-endian words ws one after the other from offset lo,
\* those that fit before offset hi.
RECURSIVE put_words(_, _, _, _)
put_words(buf, lo, hi, ws) ==
    IF ws = << >> \/ lo + 8 > hi THEN buf
    ELSE put_words(store(buf, lo, le_bytes(Head(ws), 8)), lo + 8, hi, Tail(ws))

MakeArchive(p) ==
    LET rwu   == p.sz[1]
        rou   == p.sz[2]
        rw_fo == align_up(FixedHeaderLen, p.al)
        ro_fo == align_up(rw_fo + rwu, p.al)
        bm_fo == align_up(ro_fo + rou, p.al)
        size  == bm_fo + align_up(p.bmu, p.al)
        eb    == IF p.base # 0 THEN p.base ELSE DEFAULT_SHARED_BASE
        r(i)  == REGIONS_START + i * REGION_SIZE
        b0    == [i \in 1..size |-> filler(i)]
        b1    == store(b0, 12, le_bytes(p.hs, 4))
        b2    == store(b1, CORE_ALIGNMENT_OFF, le_bytes(p.al, 8))
        b3    == store(b2, REQUESTED_BASE_OFF, le_bytes(p.base, 8))
        b4    == store(b3, r(0) + REGION_FILE_OFFSET_OFF, le_bytes(rw_fo, 8))
        b5    == store(b4, r(0) + REGION_USED_OFF, le_bytes(rwu, 8))
        b6    == store(b5, r(1) + REGION_FILE_OFFSET_OFF, le_bytes(ro_fo, 8))
        b7    == store(b6, r(1) + REGION_USED_OFF, le_bytes(rou, 8))
        b8    == store(b7, r(2) + REGION_FILE_OFFSET_OFF, le_bytes(bm_fo, 8))
        b9    == store(b8, r(2) + REGION_USED_OFF, le_bytes(p.bmu, 8))
        \* rw payload: addresses of the first rw byte, the last ro byte, one
        \* past the rw payload, a small number, the last rw byte, one below.
        rww   == << eb + rw_fo,
                    IF rou > 0 THEN eb + ro_fo + rou - 1 ELSE 5,
                    eb + rw_fo + rwu,
                    7,
                    eb + rw_fo + rwu - 1,
                    eb + rw_fo - 1 >>
        \* ro payload: addresses of the first ro byte, the last rw byte, one
        \* past the ro payload.
        row   == << eb + ro_fo,
                    IF rwu > 0 THEN eb + rw_fo + rwu - 1 ELSE 5,
                    eb + ro_fo + rou >>
        b10   == put_words(b9, rw_fo, rw_fo + rwu, rww)
    IN  put_words(b10, ro_fo, ro_fo + rou, row)

\* ------------------------------------------------------------------------
\* State
VARIABLES
    file1,        \* bytes of the file at cache1_path
    file2,        \* bytes of the file at cache2_path
    pc,           \* position in merge
    err,          \* the exception merge ended with, "" for none
    h1,           \* parse_header(m1)
    h2,           \* parse_header(m2)
    plan,         \* the local variables computed at lines 121-171
    out_exists,   \* whether a file exists at out_path
    out,          \* bytes of the file at out_path (through out_m)
    write_log,    \* the byte ranges written to out_m so far, in order
    sp            \* a call of shift_pointers on its own: arguments and result

vars == <<file1, file2, pc, err, h1, h2, plan, out_exists, out, write_log, sp>>

NoCall == [blob |-> << >>, rule |-> << >>, result |-> << >>, called |-> FALSE]

Init ==
    /\ \E p1 \in Archive1Inputs, p2 \in Archive2Inputs :
          /\ file1 = MakeArchive(p1)
          /\ file2 = MakeArchive(p2)
    /\ pc = "start"
    /\ err = ""
    /\ h1 = NoHeader
    /\ h2 = NoHeader
    /\ plan = NoPlan
    /\ out_exists = FALSE
    /\ out = << >>
    /\ write_log = << >>
    /\ sp = NoCall

\* lines 114-119: h1 = parse_header(m1); h2 = parse_header(m2)
ParseHeaders ==
    /\ pc = "start"
    /\ IF header_too_large(file1)
          THEN /\ pc' = "failed"
               /\ err' = "ValueError"
               /\ UNCHANGED <<h1, h2>>
       ELSE IF header_too_large(file2)
          THEN /\ pc' = "failed"
               /\ err' = "ValueError"
               /\ h1' = parse_header(file1)
               /\ UNCHANGED h2
       ELSE /\ pc' = "parsed"
            /\ h1' = parse_header(file1)
            /\ h2' = parse_header(file2)
            /\ UNCHANGED err
    /\ UNCHANGED <<file1, file2, plan, out_exists, out, write_log, sp>>

\* lines 121-171
ComputePlan ==
    /\ pc = "parsed"
    /\ plan' = merge_plan(h1, h2)
    /\ pc' = "planned"
    /\ UNCHANGED <<file1, file2, err, h1, h2, out_exists, out, write_log, sp>>

\* lines 174-178: open(out_path, "wb"), truncate(total_size), mmap
CreateOutput ==
    /\ pc = "planned"
    /\ out_exists' = TRUE
    /\ out' = [i \in 1..plan.total_size |-> 0]
    /\ IF plan.total_size = 0
          THEN pc' = "failed" /\ err' = "ValueError"
          ELSE pc' = "created" /\ UNCHANGED err
    /\ UNCHANGED <<file1, file2, h1, h2, plan, write_log, sp>>

\* ------------------------------------------------------------------------
\* Archive Assembler (merge, lines 180-264)

\* Number of bytes out_m[lo:hi] denotes (Python clamps both indices).
slice_len(buf, lo, hi) ==
    LET l == IF lo < Len(buf) THEN lo ELSE Len(buf)
        h == IF hi < Len(buf) THEN hi ELSE Len(buf)
    IN  IF h > l THEN h - l ELSE 0

\* out_m[lo:hi] = data: mmap refuses an assignment of another size.
assign_ok(buf, lo, hi, data) ==
    slice_len(buf, lo, hi) = Len(data)

assign(buf, lo, data) ==
    IF data = << >> THEN buf ELSE store(buf, lo, data)

\* The write log after out_m[lo:lo+len(data)] = data by `step`.
logged(log, step, lo, data) ==
    Append(log, [step |-> step, lo |-> lo, hi |-> lo + Len(data)])

\* One slice assignment as the whole effect of a step, then on to `next`.
AssignStep(step, lo, hi, data, next) ==
    IF assign_ok(out, lo, hi, data)
       THEN /\ out' = assign(out, lo, data)
            /\ write_log' = logged(write_log, step, lo, data)
            /\ pc' = next
            /\ UNCHANGED err
       ELSE /\ pc' = "failed"
            /\ err' = "IndexError"
            /\ UNCHANGED <<out, write_log>>

\* struct.pack_into calls in order, stopping at the first that does not fit
\* (struct.error); a call is [step, off, width, value].
RECURSIVE pack_all(_, _, _)
pack_all(buf, log, calls) ==
    IF calls = << >> THEN [buf |-> buf, log |-> log, ok |-> TRUE]
    ELSE LET c == Head(calls)
         IN  IF c.off + c.width > Len(buf)
                THEN [buf |-> buf, log |-> log, ok |-> FALSE]
             ELSE pack_all(IF c.width = 8 THEN write_u64(buf, c.off, c.value)
                                          ELSE zero_u32(buf, c.off),
                           Append(log, [step |-> c.step, lo |-> c.off, hi |-> c.off + c.width]),
                           Tail(calls))

PackStep(calls, next) ==
    LET r == pack_all(out, write_log, calls)
    IN  /\ out' = r.buf
        /\ write_log' = r.log
        /\ IF r.ok THEN pc' = next /\ UNCHANGED err
                   ELSE pc' = "failed" /\ err' = "struct.error"

r0_base == REGIONS_START + 0 * REGION_SIZE
r1_base == REGIONS_START + 1 * REGION_SIZE
bm_base == REGIONS_START + 2 * REGION_SIZE

\* lines 182-184: out_m[:h1["header_size"]] = header_bytes
CopyHeader ==
    /\ pc = "created"
    /\ AssignStep("header", 0, h1.header_size, file_read(file1, 0, h1.header_size), "header")
    /\ UNCHANGED <<file1, file2, h1, h2, plan, out_exists, sp>>

\* lines 187-200
directory_patches(h, pl) ==
    << [step |-> "patch", off |-> r0_base + REGION_FILE_OFFSET_OFF, width |-> 8, value |-> pl.out_rw_file_off],
       [step |-> "patch", off |-> r0_base + REGION_USED_OFF, width |-> 8, value |-> pl.merged_rw_used],
       [step |-> "patch", off |-> r1_base + REGION_FILE_OFFSET_OFF, width |-> 8, value |-> pl.out_ro_file_off],
       [step |-> "patch", off |-> r1_base + REGION_USED_OFF, width |-> 8, value |-> pl.merged_ro_used],
       [step |-> "patch", off |-> bm_base + REGION_FILE_OFFSET_OFF, width |-> 8, value |-> pl.out_bm_file_off],
       [step |-> "patch", off |-> bm_base + REGION_USED_OFF, width |-> 8, value |-> h.bm.used] >>

PatchDirectory ==
    /\ pc = "header"
    /\ PackStep(directory_patches(h1, plan), "patched")
    /\ UNCHANGED <<file1, file2, h1, h2, plan, out_exists, sp>>

\* The crc patches of a merge that zeroes the top-level field only.
crc_patches_top_only ==
    << [step |-> "crc", off |-> 4, width |-> 4, value |-> 0] >>

\* lines 203-205
crc_patches ==
    << [step |-> "crc", off |-> 4, width |-> 4, value |-> 0],
       [step |-> "crc", off |-> r0_base, width |-> 4, value |-> 0],
       [step |-> "crc", off |-> r1_base, width |-> 4, value |-> 0] >>

ZeroCRCs ==
    /\ pc = "patched"
    /\ PackStep(crc_patches, "crc")
    /\ UNCHANGED <<file1, file2, h1, h2, plan, out_exists, sp>>

\* lines 209-212
CopyRW1 ==
    /\ pc = "crc"
    /\ AssignStep("rw1", plan.out_rw_file_off, plan.out_rw_file_off + h1.rw.used,
                  file_read(file1, h1.rw.file_offset, h1.rw.used), "rw1")
    /\ UNCHANGED <<file1, file2, h1, h2, plan, out_exists, sp>>

\* cache2's payload of a region, relocated (lines 214-225 and 236-247)
relocated(r) ==
    shift_pointers(file_read(file2, r.file_offset, r.used),
                   plan.old_rw2_start, h2.rw.used, plan.delta_rw,
                   plan.old_ro2_start, h2.ro.used, plan.delta_ro)

\* rw2_off = out_rw_file_off + rw1_used; ro2_off = out_ro_file_off + ro1_used
payload2_off(out_file_off, used1) ==
    out_file_off + used1

\* lines 214-227
CopyRW2 ==
    /\ pc = "rw1"
    /\ LET rw2_off == payload2_off(plan.out_rw_file_off, h1.rw.used)
       IN  AssignStep("rw2", rw2_off, rw2_off + h2.rw.used, relocated(h2.rw), "rw2")
    /\ UNCHANGED <<file1, file2, h1, h2, plan, out_exists, sp>>

\* lines 231-234
CopyRO1 ==
    /\ pc = "rw2"
    /\ AssignStep("ro1", plan.out_ro_file_off, plan.out_ro_file_off + h1.ro.used,
                  file_read(file1, h1.ro.file_offset, h1.ro.used), "ro1")
    /\ UNCHANGED <<file1, file2, h1, h2, plan, out_exists, sp>>

\* lines 236-249
CopyRO2 ==
    /\ pc = "ro1"
    /\ LET ro2_off == payload2_off(plan.out_ro_file_off, h1.ro.used)
       IN  AssignStep("ro2", ro2_off, ro2_off + h2.ro.used, relocated(h2.ro), "ro2")
    /\ UNCHANGED <<file1, file2, h1, h2, plan, out_exists, sp>>

\* lines 252-262: the bitmap of cache1, its zero padding, out_m.flush()
CopyBitmap ==
    /\ pc = "ro2"
    /\ LET bm1_used == h1.bm.used
           lo       == plan.out_bm_file_off
           bm_data  == file_read(file1, h1.bm.file_offset, bm1_used)
           pad_bm   == plan.bm1_aligned - bm1_used
           pad      == [i \in 1..pad_bm |-> 0]
       IN  IF bm1_used > 0
              THEN IF ~assign_ok(out, lo, lo + bm1_used, bm_data)
                      THEN /\ pc' = "failed"
                           /\ err' = "IndexError"
                           /\ UNCHANGED <<out, write_log>>
                   ELSE IF pad_bm > 0
                      THEN IF ~assign_ok(out, lo + bm1_used, lo + plan.bm1_aligned, pad)
                              THEN /\ pc' = "failed"
                                   /\ err' = "IndexError"
                                   /\ out' = assign(out, lo, bm_data)
                                   /\ write_log' = logged(write_log, "bm", lo, bm_data)
                           ELSE /\ out' = assign(assign(out, lo, bm_data), lo + bm1_used, pad)
                                /\ write_log' = logged(logged(write_log, "bm", lo, bm_data),
                                                    "pad", lo + bm1_used, pad)
                                /\ pc' = "done"
                                /\ UNCHANGED err
                   ELSE /\ out' = assign(out, lo, bm_data)
                        /\ write_log' = logged(write_log, "bm", lo, bm_data)
                        /\ pc' = "done"
                        /\ UNCHANGED err
           ELSE /\ pc' = "done"
                /\ UNCHANGED <<out, write_log, err>>
    /\ UNCHANGED <<file1, file2, h1, h2, plan, out_exists, sp>>

Next ==
    \/ ParseHeaders
    \/ ComputePlan
    \/ CreateOutput
    \/ CopyHeader
    \/ PatchDirectory
    \/ ZeroCRCs
    \/ CopyRW1
    \/ CopyRW2
    \/ CopyRO1
    \/ CopyRO2
    \/ CopyBitmap

Spec == Init /\ [][Next]_vars

\* ------------------------------------------------------------------------
\* shift_pointers on its own: a blob of two words and a tail shorter than a
\* word, under two rules whose ranges may be empty, apart or overlapping.

ShiftWordValues == {0, 99, 100, 108, 115, 116, 123, 124, 215, U64 - 1}
ShiftTails == {<< >>, <<3, 4, 5>>}
ShiftRules ==
    [base_old : {100}, size_old : {0, 16}, delta : {24, -60, U64 - 50},
     also_ro_base : {108, 200}, also_ro_size : {0, 16}, delta_ro : {40, -100}]

InitShift ==
    /\ \E a \in ShiftWordValues, b \in ShiftWordValues, t \in ShiftTails, r \in ShiftRules :
          sp = [blob |-> le_bytes(a, 8) \o le_bytes(b, 8) \o t, rule |-> r,
                result |-> << >>, called |-> FALSE]
    /\ file1 = << >>
    /\ file2 = << >>
    /\ pc = "shift"
    /\ err = ""
    /\ h1 = NoHeader
    /\ h2 = NoHeader
    /\ plan = NoPlan
    /\ out_exists = FALSE
    /\ out = << >>
    /\ write_log = << >>

\* lines 83-104: one call, the blob rewritten in place
CallShiftPointers ==
    /\ pc = "shift"
    /\ ~sp.called
    /\ sp' = [sp EXCEPT !.called = TRUE,
                        !.result = shift_pointers(sp.blob, sp.rule.base_old, sp.rule.size_old,
                                                  sp.rule.delta, sp.rule.also_ro_base,
                                                  sp.rule.also_ro_size, sp.rule.delta_ro)]
    /\ UNCHANGED <<file1, file2, pc, err, h1, h2, plan, out_exists, out, write_log>>

NextShift ==
    CallShiftPointers

SpecShift == InitShift /\ [][NextShift]_vars

\* ------------------------------------------------------------------------
\* Properties

\* The least multiple of a (a > 0) that is at least v.
RoundUp(v, a) ==
    CHOOSE m \in v..(v + a - 1) : m % a = 0

\* merge has computed its layout.
Planned ==
    plan # NoPlan

\* The effective base of an archive that declared base b.
BaseOrDefault(b) ==
    IF b = 0 THEN DEFAULT_SHARED_BASE ELSE b

\* C1: the merge plan equals the reference formula: merged sizes are the sums
\* of the two archives' used sizes, the writable region starts at header_size1
\* rounded up to alignment1, the read-only region at the writable region's end
\* rounded up, the auxiliary region at the read-only region's end rounded up;
\* header_size 64, alignment 16, rw 100+50, ro 200+30 give 64/150, 224/230, 464.
C1_PlanMatchesFormula ==
    Planned =>
        /\ plan.merged_rw_used = h1.rw.used + h2.rw.used
        /\ plan.merged_ro_used = h1.ro.used + h2.ro.used
        /\ plan.out_rw_file_off = RoundUp(h1.header_size, h1.alignment)
        /\ plan.out_ro_file_off =
               RoundUp(RoundUp(h1.header_size, h1.alignment) + h1.rw.used + h2.rw.used,
                       h1.alignment)
        /\ plan.out_bm_file_off =
               RoundUp(plan.out_ro_file_off + h1.ro.used + h2.ro.used, h1.alignment)
        /\ (/\ h1.header_size = 64 /\ h1.alignment = 16
            /\ h1.rw.used = 100 /\ h2.rw.used = 50
            /\ h1.ro.used = 200 /\ h2.ro.used = 30)
           => /\ plan.out_rw_file_off = 64 /\ plan.merged_rw_used = 150
              /\ plan.out_ro_file_off = 224 /\ plan.merged_ro_used = 230
              /\ plan.out_bm_file_off = 464

C1_Witness ==
    /\ Planned
    /\ h1.header_size = 64 /\ h1.alignment = 16
    /\ h1.rw.used = 100 /\ h2.rw.used = 50
    /\ h1.ro.used = 200 /\ h2.ro.used = 30
    /\ plan.out_ro_file_off = 224

\* C2: with equal alignments, the size the output file is allocated to equals
\* the auxiliary offset plus archive1's auxiliary used size, rounded up to the
\* alignment.
C2_TotalSize ==
    (Planned /\ h1.alignment = h2.alignment) =>
        /\ plan.total_size = RoundUp(plan.out_bm_file_off + h1.bm.used, h1.alignment)
        /\ (out_exists => Len(out) = RoundUp(plan.out_bm_file_off + h1.bm.used, h1.alignment))

C2_Witness ==
    /\ pc = "done"
    /\ h1.alignment = h2.alignment
    /\ h1.bm.used % h1.alignment # 0
    /\ Len(out) = plan.out_bm_file_off + plan.bm1_aligned

\* Indices of the aligned 8-byte words of a payload of n bytes.
WordsOf(n) ==
    0..((n \div 8) - 1)

\* The words of cache2's payload of region r, which the output holds from
\* offset dest, are relocated: a word that is the address of byte k of
\* cache2's rw (ro) payload has become the address of that byte in the merged
\* file, modulo 2^64.
RelocatedAt(r, dest) ==
    LET b1    == BaseOrDefault(h1.requested_base)
        b2    == BaseOrDefault(h2.requested_base)
        oldrw == b2 + h2.rw.file_offset
        oldro == b2 + h2.ro.file_offset
    IN  \A i \in WordsOf(r.used) :
            LET v == read_u64(file2, r.file_offset + 8 * i)
                w == read_u64(out, dest + 8 * i)
            IN  /\ (oldrw <= v /\ v < oldrw + h2.rw.used) =>
                       w = (b1 + plan.out_rw_file_off + h1.rw.used + (v - oldrw)) % U64
                /\ (oldro <= v /\ v < oldro + h2.ro.used) =>
                       w = (b1 + plan.out_ro_file_off + h1.ro.used + (v - oldro)) % U64

\* Some word of cache2's payload of region r is an address into region t.
HasPointer(r, t) ==
    LET old == BaseOrDefault(h2.requested_base) + t.file_offset
    IN  \E i \in WordsOf(r.used) :
            LET v == read_u64(file2, r.file_offset + 8 * i)
            IN  old < v /\ v < old + t.used

\* C3: after merge, every 8-byte word of archive2's writable or read-only
\* payload that equals the address (base2 + file offset + k) of byte k of
\* archive2's writable payload is the address of that byte in the merged
\* layout (base1 + merged writable start + rw1.used + k, modulo 2^64), and
\* likewise for addresses into archive2's read-only payload.
C3_PointersRelocated ==
    pc = "done" =>
        /\ RelocatedAt(h2.rw, plan.out_rw_file_off + h1.rw.used)
        /\ RelocatedAt(h2.ro, plan.out_ro_file_off + h1.ro.used)

C3_Witness ==
    /\ pc = "done"
    /\ HasPointer(h2.rw, h2.rw) /\ HasPointer(h2.rw, h2.ro)
    /\ HasPointer(h2.ro, h2.rw)
    /\ BaseOrDefault(h1.requested_base) + plan.out_rw_file_off >= U64
    /\ h1.requested_base # h2.requested_base

\* C5: merging archive A with an archive whose writable and read-only
\* payloads are empty leaves the merged writable region (its used bytes from
\* the planned writable offset) byte-identical to A's writable payload, and
\* the merged read-only region to A's read-only payload.
C5_RoundTrip ==
    (pc = "done" /\ h2.rw.used = 0 /\ h2.ro.used = 0) =>
        /\ plan.merged_rw_used = h1.rw.used
        /\ plan.merged_ro_used = h1.ro.used
        /\ slice(out, plan.out_rw_file_off, plan.out_rw_file_off + plan.merged_rw_used)
               = slice(file1, h1.rw.file_offset, h1.rw.file_offset + h1.rw.used)
        /\ slice(out, plan.out_ro_file_off, plan.out_ro_file_off + plan.merged_ro_used)
               = slice(file1, h1.ro.file_offset, h1.ro.file_offset + h1.ro.used)
        /\ Len(slice(out, plan.out_rw_file_off, plan.out_rw_file_off + plan.merged_rw_used))
               = h1.rw.used
        /\ Len(slice(out, plan.out_ro_file_off, plan.out_ro_file_off + plan.merged_ro_used))
               = h1.ro.used

C5_Witness ==
    /\ pc = "done"
    /\ h2.rw.used = 0 /\ h2.ro.used = 0
    /\ h1.rw.used > 0 /\ h1.ro.used > 0

\* The header_size a file declares is larger than the file.
DeclaresTooLarge(file) ==
    file[13] + file[14] * Radix + file[15] * Radix^2 + file[16] * Radix^3 > Len(file)

\* C6: if either archive declares a header_size larger than its file, merge
\* fails with a format error before the output file is created or written;
\* the output exists only after both headers were parsed.
C6_FormatErrorBeforeOutput ==
    /\ ((DeclaresTooLarge(file1) \/ DeclaresTooLarge(file2)) /\ pc # "start") =>
           /\ pc = "failed" /\ err = "ValueError"
           /\ ~out_exists /\ out = << >> /\ write_log = << >>
    /\ (out_exists \/ out # << >> \/ write_log # << >>) =>
           /\ ~DeclaresTooLarge(file1) /\ ~DeclaresTooLarge(file2)
           /\ h1 = parse_header(file1) /\ h2 = parse_header(file2)

C6_Witness ==
    /\ pc = "failed" /\ err = "ValueError"
    /\ ~DeclaresTooLarge(file1) /\ DeclaresTooLarge(file2)
    /\ ~out_exists

\* Word i of the blob shift_pointers was called on, and of its result.
WordBefore(i) ==
    read_u64(sp.blob, 8 * i)

WordAfter(i) ==
    read_u64(sp.result, 8 * i)

InFirstRange(v) ==
    sp.rule.base_old <= v /\ v < sp.rule.base_old + sp.rule.size_old

InSecondRange(v) ==
    sp.rule.also_ro_base <= v /\ v < sp.rule.also_ro_base + sp.rule.also_ro_size

\* The bytes past the last whole word, and the length, are as they were.
TailUntouched ==
    /\ Len(sp.result) = Len(sp.blob)
    /\ \A j \in (8 * (Len(sp.blob) \div 8) + 1)..Len(sp.blob) : sp.result[j] = sp.blob[j]

\* C4 as stated: a word v in the first rule's range becomes v + delta, else a
\* word in the second rule's range becomes v + delta_ro, else it is unchanged.
C4_ShiftExactSum ==
    sp.called =>
        /\ TailUntouched
        /\ \A i \in WordsOf(Len(sp.blob)) :
               LET v == WordBefore(i)
               IN  WordAfter(i) = IF InFirstRange(v) THEN v + sp.rule.delta
                                  ELSE IF InSecondRange(v) THEN v + sp.rule.delta_ro
                                  ELSE v

\* C4 amended: a word v in the first rule's half-open range becomes
\* (v + delta) modulo 2^64; otherwise a word in the second rule's range becomes
\* (v + delta_ro) modulo 2^64; otherwise its bytes are unchanged.  The first
\* rule wins where both ranges hold v.
C4_ShiftModulo ==
    sp.called =>
        /\ TailUntouched
        /\ \A i \in WordsOf(Len(sp.blob)) :
               LET v == WordBefore(i)
               IN  IF InFirstRange(v)
                      THEN WordAfter(i) = (v + sp.rule.delta) % U64
                   ELSE IF InSecondRange(v)
                      THEN WordAfter(i) = (v + sp.rule.delta_ro) % U64
                   ELSE SubSeq(sp.result, 8 * i + 1, 8 * i + 8)
                            = SubSeq(sp.blob, 8 * i + 1, 8 * i + 8)

\* A call with a word in both ranges, a word in the second only, one past
\* the end of a range, and a sum that leaves the u64 range.
C4_Witness ==
    /\ sp.called
    /\ Len(sp.blob) % 8 # 0
    /\ InFirstRange(WordBefore(0)) /\ InSecondRange(WordBefore(0))
    /\ ~InFirstRange(WordBefore(1)) /\ InSecondRange(WordBefore(1))
    /\ WordBefore(0) + sp.rule.delta >= U64
    /\ WordAfter(0) = WordBefore(0) + sp.rule.delta - U64
    /\ sp.rule.delta_ro < 0

\* The integrity-check field (crc) at offset off is zero in the output.
CrcZero(off) ==
    out[off + 1] = 0 /\ out[off + 2] = 0 /\ out[off + 3] = 0 /\ out[off + 4] = 0

\* The 4-byte field at offset off lies in the header copied from archive1.
InHeader(off) ==
    off + 4 <= h1.header_size

\* C7 as stated: in the output header of a successful merge the top-level
\* integrity field and the integrity fields of the writable, read-only and
\* auxiliary region records are zero.
C7_AllCrcsZero ==
    (pc = "done" /\ InHeader(bm_base)) =>
        /\ CrcZero(4)
        /\ CrcZero(r0_base)
        /\ CrcZero(r1_base)
        /\ CrcZero(bm_base)

\* C7 amended: in the output header of a successful merge the top-level
\* integrity field and the integrity fields of the writable and read-only
\* region records are zero; the auxiliary record's integrity field is not
\* zeroed, it holds the bytes of archive1's header.
C7_RwRoCrcsZero ==
    pc = "done" =>
        /\ InHeader(4) => CrcZero(4)
        /\ InHeader(r0_base) => CrcZero(r0_base)
        /\ InHeader(r1_base) => CrcZero(r1_base)
        /\ InHeader(bm_base) =>
               slice(out, bm_base, bm_base + 4) = slice(file1, bm_base, bm_base + 4)

C7_Witness ==
    /\ pc = "done"
    /\ InHeader(bm_base)
    /\ ~CrcZero(bm_base)
    /\ read_u32(file1, 4) # 0 /\ read_u32(file1, r0_base) # 0 /\ read_u32(file1, r1_base) # 0
    /\ CrcZero(4) /\ CrcZero(r0_base) /\ CrcZero(r1_base)

\* h with its declared requested_base_address replaced by b.
WithBase(h, b) ==
    [h EXCEPT !.requested_base = b]

\* C8: with both archives declaring requested_base_address 0, merge computes
\* the same writable and read-only deltas and the same output offsets as with
\* both archives declaring one matching nonzero base, the region offsets and
\* sizes being the same: in either run the bases cancel and the deltas are
\* differences of file offsets.
C8_DefaultBaseCancels ==
    /\ (Planned /\ h1.requested_base = h2.requested_base) =>
           /\ plan.delta_rw = (plan.out_rw_file_off + h1.rw.used) - h2.rw.file_offset
           /\ plan.delta_ro = (plan.out_ro_file_off + h1.ro.used) - h2.ro.file_offset
    /\ (Planned /\ h1.requested_base = 0 /\ h2.requested_base = 0) =>
        \A b \in {BaseB, BaseHigh, 1, DEFAULT_SHARED_BASE} :
            LET q == merge_plan(WithBase(h1, b), WithBase(h2, b))
            IN  /\ plan.delta_rw = q.delta_rw
                /\ plan.delta_ro = q.delta_ro
                /\ plan.out_rw_file_off = q.out_rw_file_off
                /\ plan.out_ro_file_off = q.out_ro_file_off
                /\ plan.out_bm_file_off = q.out_bm_file_off

C8_Witness ==
    /\ pc = "done"
    /\ h1.requested_base = 0 /\ h2.requested_base = 0
    /\ plan.warned
    /\ plan.delta_rw # 0 /\ plan.delta_ro # 0

\* C9 as stated: if requested_base_address is zero in either archive, the
\* effective bases of both archives are DEFAULT_SHARED_BASE.
C9_BothFallBack ==
    (Planned /\ (h1.requested_base = 0 \/ h2.requested_base = 0)) =>
        /\ plan.requested_base1 = DEFAULT_SHARED_BASE
        /\ plan.requested_base2 = DEFAULT_SHARED_BASE

\* C9 amended: each archive falls back on its own: an archive that declares
\* requested_base_address zero uses DEFAULT_SHARED_BASE, an archive that
\* declares a nonzero base keeps it, whatever the other archive declares; so
\* both use the default exactly when both declare zero (or declare it).
C9_EachFallsBackAlone ==
    Planned =>
        /\ h1.requested_base = 0 => plan.requested_base1 = DEFAULT_SHARED_BASE
        /\ h2.requested_base = 0 => plan.requested_base2 = DEFAULT_SHARED_BASE
        /\ h1.requested_base # 0 => plan.requested_base1 = h1.requested_base
        /\ h2.requested_base # 0 => plan.requested_base2 = h2.requested_base
        /\ plan.old_rw2_start = plan.requested_base2 + h2.rw.file_offset
        /\ plan.delta_rw + plan.old_rw2_start
               = plan.requested_base1 + plan.out_rw_file_off + h1.rw.used

C9_Witness ==
    /\ Planned
    /\ h1.requested_base = 0 /\ h2.requested_base # 0
    /\ plan.requested_base1 = DEFAULT_SHARED_BASE
    /\ plan.requested_base2 # DEFAULT_SHARED_BASE

\* The entries of the write log made by the given step.
WritesOf(step) ==
    {w \in {write_log[i] : i \in DOMAIN write_log} : w.step = step}

\* C10: the byte ranges written by the steps do not overlap: the header copy
\* [0, header_size1), archive1's and archive2's writable payloads, archive1's
\* and archive2's read-only payloads and archive1's auxiliary payload are
\* disjoint and in that file order, and every region-directory and
\* integrity-field patch lies inside the copied header range.
C10_WritesDisjoint ==
    pc = "done" =>
        /\ \A i \in DOMAIN write_log : \A j \in DOMAIN write_log :
               (i < j /\ write_log[i].step \notin {"patch", "crc"}
                      /\ write_log[j].step \notin {"patch", "crc"})
                   => write_log[i].hi <= write_log[j].lo
        /\ \A h \in WritesOf("header") : h.lo = 0 /\ h.hi = h1.header_size
        /\ \A w \in WritesOf("patch") \cup WritesOf("crc") :
               0 <= w.lo /\ w.hi <= h1.header_size

====
